---- MODULE Spec2Model ----
(***************************************************************************)
(* Model of the Volkern MCP server (src/src/index.ts): the tool registry,  *)
(* the per-tool mapping rules of handleToolCall, the HTTP helper           *)
(* volkernRequest and the call-tool request handler that wraps every       *)
(* outcome in a result envelope.                                           *)
(*                                                                         *)
(* Texts (paths, query strings, JSON documents, messages) are sequences of *)
(* tokens; a token is a TLA+ string.  JavaScript values are tagged records *)
(* so that values of different types can be compared.                      *)
(***************************************************************************)
EXTENDS Integers, Sequences, FiniteSets, TLC

(***************************************************************************)
(* JavaScript values                                                       *)
(***************************************************************************)
Undefined == [t |-> "undefined"]
Null      == [t |-> "null"]
Str(s)    == [t |-> "string", s |-> s]
Num(n)    == [t |-> "number", n |-> n]
Bool(b)   == [t |-> "boolean", b |-> b]
Arr(a)    == [t |-> "array", a |-> a]
\* an object is the sequence of its own properties in insertion order
Obj(m)    == [t |-> "object", m |-> m]
Prop(k, v) == [k |-> k, v |-> v]

HasKey(o, key) == \E i \in 1..Len(o.m) : o.m[i].k = key

\* o.key: the property's value, undefined when the object has no such key
Get(o, key) ==
    IF HasKey(o, key)
    THEN o.m[CHOOSE i \in 1..Len(o.m) : o.m[i].k = key].v
    ELSE Undefined

\* the object without the property key, the other properties in order
Without(o, key) == Obj(SelectSeq(o.m, LAMBDA p : p.k # key))

\* o[key] = v as JSON.parse does it: a repeated key keeps its first position
Put(o, key, v) ==
    IF HasKey(o, key)
    THEN Obj([i \in 1..Len(o.m) |-> IF o.m[i].k = key THEN Prop(key, v) ELSE o.m[i]])
    ELSE Obj(Append(o.m, Prop(key, v)))

\* ToBoolean: the test of `if (args.estado)`
Truthy(v) ==
    CASE v.t = "undefined" -> FALSE
      [] v.t = "null"      -> FALSE
      [] v.t = "string"    -> v.s # ""
      [] v.t = "number"    -> v.n # 0
      [] v.t = "boolean"   -> v.b
      [] OTHER             -> TRUE

RECURSIVE JoinTexts(_, _)
\* the texts of a sequence joined by a separator token
JoinTexts(texts, sep) ==
    IF Len(texts) = 0 THEN <<>>
    ELSE IF Len(texts) = 1 THEN texts[1]
    ELSE texts[1] \o <<sep>> \o JoinTexts(Tail(texts), sep)

RECURSIVE JSString(_)
\* String(v) and `${v}`: the textual form of a value
JSString(v) ==
    CASE v.t = "undefined" -> <<"undefined">>
      [] v.t = "null"      -> <<"null">>
      [] v.t = "string"    -> IF v.s = "" THEN <<>> ELSE <<v.s>>
      [] v.t = "number"    -> <<ToString(v.n)>>
      [] v.t = "boolean"   -> IF v.b THEN <<"true">> ELSE <<"false">>
      [] v.t = "array"     ->
            JoinTexts([i \in 1..Len(v.a) |->
                          IF v.a[i].t \in {"undefined", "null"} THEN <<>>
                          ELSE JSString(v.a[i])], ",")
      [] OTHER             -> <<"[object Object]">>

\* text a contains text b as a contiguous run of tokens
Contains(a, b) ==
    \E i \in 0..(Len(a) - Len(b)) : \A j \in 1..Len(b) : a[i + j] = b[j]

(***************************************************************************)
(* JSON.stringify and JSON.parse                                           *)
(***************************************************************************)
\* a string literal of a JSON text
Quote(s) == ToString(s)

RECURSIVE Indent(_)
\* the indentation of nesting level n when the gap is two spaces
Indent(n) == IF n = 0 THEN <<>> ELSE <<"  ">> \o Indent(n - 1)

RECURSIVE Stringify(_, _, _)
\* JSON.stringify(v, null, pretty ? 2 : undefined) at nesting level lvl.
\* Properties whose value is undefined are left out; undefined in an array
\* is written null.
Stringify(v, pretty, lvl) ==
    LET open  == IF pretty THEN <<"\n">> \o Indent(lvl + 1) ELSE <<>>
        sep   == <<",">> \o open
        close == IF pretty THEN <<"\n">> \o Indent(lvl) ELSE <<>>
        colon == IF pretty THEN <<":", " ">> ELSE <<":">>
    IN
    CASE v.t = "null"    -> <<"null">>
      [] v.t = "string"  -> <<Quote(v.s)>>
      [] v.t = "number"  -> <<ToString(v.n)>>
      [] v.t = "boolean" -> IF v.b THEN <<"true">> ELSE <<"false">>
      [] v.t = "array"   ->
            IF Len(v.a) = 0 THEN <<"[", "]">>
            ELSE LET RECURSIVE Items(_)
                     Items(i) ==
                        LET item == IF v.a[i].t = "undefined" THEN <<"null">>
                                    ELSE Stringify(v.a[i], pretty, lvl + 1)
                        IN IF i = Len(v.a) THEN item
                           ELSE item \o sep \o Items(i + 1)
                 IN <<"[">> \o open \o Items(1) \o close \o <<"]">>
      [] v.t = "object"  ->
            LET props == SelectSeq(v.m, LAMBDA p : p.v.t # "undefined")
                RECURSIVE Members(_)
                Members(i) ==
                    LET member == <<Quote(props[i].k)>> \o colon
                                    \o Stringify(props[i].v, pretty, lvl + 1)
                    IN IF i = Len(props) THEN member
                       ELSE member \o sep \o Members(i + 1)
            IN IF Len(props) = 0 THEN <<"{", "}">>
               ELSE <<"{">> \o open \o Members(1) \o close \o <<"}">>

\* JSON.stringify(v)
JSONStringify(v) == Stringify(v, FALSE, 0)

\* JSON.stringify(v, null, 2)
JSONStringifyPretty(v) == Stringify(v, TRUE, 0)

\* the strings and numbers that occur in the JSON texts of the model
JSONStrings ==
    {"id", "42", "error", "slot_taken", "leadId", "citaId", "abc123", "c9",
     "nombre", "X", "Juan", "estado", "nuevo", "search", "a b", "", "page",
     "limit", "canal", "web", "etiquetas", "vip", "activo", "contexto",
     "fecha", "2026-01-15", "completada", "items"}
JSONNumbers == 0..9 \cup {42}

WhiteSpace == {" ", "  ", "\n"}
StringTokens == {Quote(s) : s \in JSONStrings}
NumberTokens == {ToString(n) : n \in JSONNumbers}
Unquote(tok) == CHOOSE s \in JSONStrings : Quote(s) = tok
ToNumber(tok) == CHOOSE n \in JSONNumbers : ToString(n) = tok

RECURSIVE SkipWs(_, _)
\* the first position at or after p that holds no white space
SkipWs(toks, p) ==
    IF p <= Len(toks) /\ toks[p] \in WhiteSpace THEN SkipWs(toks, p + 1) ELSE p

ParseFail == [ok |-> FALSE]
Parsed(v, p) == [ok |-> TRUE, v |-> v, p |-> p]

RECURSIVE ParseValue(_, _), ParseMembers(_, _, _), ParseItems(_, _, _)
\* one JSON value starting at position p (white space already skipped)
ParseValue(toks, p) ==
    IF p > Len(toks) THEN ParseFail
    ELSE LET tok == toks[p] IN
         CASE tok = "{"     ->
                LET q == SkipWs(toks, p + 1)
                IN IF q <= Len(toks) /\ toks[q] = "}" THEN Parsed(Obj(<<>>), q + 1)
                   ELSE ParseMembers(toks, q, Obj(<<>>))
           [] tok = "["     ->
                LET q == SkipWs(toks, p + 1)
                IN IF q <= Len(toks) /\ toks[q] = "]" THEN Parsed(Arr(<<>>), q + 1)
                   ELSE ParseItems(toks, q, <<>>)
           [] tok = "true"  -> Parsed(Bool(TRUE), p + 1)
           [] tok = "false" -> Parsed(Bool(FALSE), p + 1)
           [] tok = "null"  -> Parsed(Null, p + 1)
           [] tok \in StringTokens -> Parsed(Str(Unquote(tok)), p + 1)
           [] tok \in NumberTokens -> Parsed(Num(ToNumber(tok)), p + 1)
           [] OTHER         -> ParseFail

\* the members of an object from position p on, up to the closing brace
ParseMembers(toks, p, acc) ==
    IF p > Len(toks) \/ toks[p] \notin StringTokens THEN ParseFail
    ELSE LET c == SkipWs(toks, p + 1) IN
         IF c > Len(toks) \/ toks[c] # ":" THEN ParseFail
         ELSE LET r == ParseValue(toks, SkipWs(toks, c + 1)) IN
              IF ~r.ok THEN ParseFail
              ELSE LET e    == SkipWs(toks, r.p)
                       acc2 == Put(acc, Unquote(toks[p]), r.v)
                   IN IF e > Len(toks) THEN ParseFail
                      ELSE IF toks[e] = "}" THEN Parsed(acc2, e + 1)
                      ELSE IF toks[e] = ","
                           THEN ParseMembers(toks, SkipWs(toks, e + 1), acc2)
                      ELSE ParseFail

\* the items of an array from position p on, up to the closing bracket
ParseItems(toks, p, acc) ==
    LET r == ParseValue(toks, p) IN
    IF ~r.ok THEN ParseFail
    ELSE LET e    == SkipWs(toks, r.p)
             acc2 == Append(acc, r.v)
         IN IF e > Len(toks) THEN ParseFail
            ELSE IF toks[e] = "]" THEN Parsed(Arr(acc2), e + 1)
            ELSE IF toks[e] = ","
                 THEN ParseItems(toks, SkipWs(toks, e + 1), acc2)
            ELSE ParseFail

\* JSON.parse: the value of a text, or a failure (a SyntaxError) when the
\* text is not exactly one JSON value
JSONParse(toks) ==
    LET r == ParseValue(toks, SkipWs(toks, 1)) IN
    IF r.ok /\ SkipWs(toks, r.p) > Len(toks) THEN [ok |-> TRUE, v |-> r.v]
    ELSE ParseFail

(***************************************************************************)
(* Configuration                                                           *)
(***************************************************************************)
VOLKERN_API_URL == <<"https://volkern.app/api">>
VOLKERN_API_KEY == <<"secret-key">>

(***************************************************************************)
(* URLSearchParams                                                         *)
(***************************************************************************)
\* application/x-www-form-urlencoded form of one token
FormEncodeToken(tok) ==
    CASE tok = "a b"             -> "a+b"
      [] tok = ","               -> "%2C"
      [] tok = "[object Object]" -> "%5Bobject+Object%5D"
      [] OTHER                   -> tok

FormEncode(text) == [i \in DOMAIN text |-> FormEncodeToken(text[i])]

\* the inverse of FormEncodeToken, as the receiving server decodes a pair
FormDecodeToken(tok) ==
    CASE tok = "a+b"                  -> "a b"
      [] tok = "%2C"                  -> ","
      [] tok = "%5Bobject+Object%5D"  -> "[object Object]"
      [] OTHER                        -> tok

\* new URLSearchParams()
NewParams == <<>>

\* params.append(name, value)
ParamsAppend(params, name, value) == Append(params, [n |-> name, v |-> value])

\* if (cond) params.append(name, String(value))
AppendIf(params, cond, name, value) ==
    IF cond THEN ParamsAppend(params, name, JSString(value)) ELSE params

\* params.toString()
ParamsToString(params) ==
    JoinTexts([i \in 1..Len(params) |->
                  <<FormEncodeToken(params[i].n), "=">> \o FormEncode(params[i].v)],
              "&")

(***************************************************************************)
(* handleToolCall: the mapping rule of each tool                           *)
(***************************************************************************)
\* the call volkernRequest(endpoint, method, body)
Call(endpoint, method, body) ==
    [kind |-> "call", endpoint |-> endpoint, method |-> method, body |-> body]

\* a helper whose default method is POST
CallDefaultPost(endpoint) == Call(endpoint, "POST", Undefined)

\* the call volkernRequest(endpoint): method and body take their defaults
CallDefault(endpoint) == Call(endpoint, "GET", Undefined)

Throw(errName, message) ==
    [kind |-> "throw", error |-> [name |-> errName, message |-> message]]

\* reading args.key when args is undefined
CannotRead(key) ==
    Throw("TypeError", <<"Cannot read properties of undefined (reading '", key, "')">>)

\* const { key, ...rest } = args when args is undefined
CannotDestructure(key) ==
    Throw("TypeError",
          <<"Cannot destructure property '", key, "' of 'args' as it is undefined.">>)

\* the identifier read but not taken out of the residual object
DestructureKeepsKey(args, key) ==
    [id |-> Get(args, key), rest |-> args, source |-> args]

\* the identifier taken out with `delete args[key]` and args sent as the rest
DestructureByDelete(args, key) ==
    [id |-> Get(args, key), rest |-> Without(args, key), source |-> Without(args, key)]

\* const { key, ...rest } = args: the identifier, the residual object, and
\* the object args itself after the statement
Destructure(args, key) ==
    [id |-> Get(args, key), rest |-> Without(args, key), source |-> args]

ListLeads(args) ==
    IF args.t = "undefined" THEN CannotRead("estado")
    ELSE LET p1 == AppendIf(NewParams, Truthy(Get(args, "estado")), "estado", Get(args, "estado"))
             p2 == AppendIf(p1, Truthy(Get(args, "canal")), "canal", Get(args, "canal"))
             p3 == AppendIf(p2, Truthy(Get(args, "search")), "search", Get(args, "search"))
             p4 == AppendIf(p3, Truthy(Get(args, "page")), "page", Get(args, "page"))
             p5 == AppendIf(p4, Truthy(Get(args, "limit")), "limit", Get(args, "limit"))
         IN CallDefault(<<"/leads?">> \o ParamsToString(p5))

GetLead(args) ==
    IF args.t = "undefined" THEN CannotRead("leadId")
    ELSE CallDefault(<<"/leads/">> \o JSString(Get(args, "leadId")))

\* the rule of create_lead with the lead identifier taken out of the body
CreateLeadStripsId(args) ==
    Call(<<"/leads">>, "POST", IF args.t = "undefined" THEN args ELSE Without(args, "leadId"))

CreateLead(args) == Call(<<"/leads">>, "POST", args)

UpdateLead(args) ==
    IF args.t = "undefined" THEN CannotDestructure("leadId")
    ELSE LET d == Destructure(args, "leadId")
         IN Call(<<"/leads/">> \o JSString(d.id), "PATCH", d.rest)

CheckDisponibilidad(args) ==
    IF args.t = "undefined" THEN CannotRead("fecha")
    ELSE LET p1 == ParamsAppend(NewParams, "fecha", JSString(Get(args, "fecha")))
             p2 == AppendIf(p1, Truthy(Get(args, "duracion")), "duracion", Get(args, "duracion"))
         IN CallDefault(<<"/citas/disponibilidad?">> \o ParamsToString(p2))

ListCitas(args) ==
    IF args.t = "undefined" THEN CannotRead("estado")
    ELSE LET p1 == AppendIf(NewParams, Truthy(Get(args, "estado")), "estado", Get(args, "estado"))
             p2 == AppendIf(p1, Truthy(Get(args, "tipo")), "tipo", Get(args, "tipo"))
             p3 == AppendIf(p2, Truthy(Get(args, "fecha")), "fecha", Get(args, "fecha"))
             p4 == AppendIf(p3, Truthy(Get(args, "fechaInicio")), "fechaInicio", Get(args, "fechaInicio"))
             p5 == AppendIf(p4, Truthy(Get(args, "fechaFin")), "fechaFin", Get(args, "fechaFin"))
         IN CallDefault(<<"/citas?">> \o ParamsToString(p5))

CreateCita(args) == Call(<<"/citas">>, "POST", args)

UpdateCita(args) ==
    IF args.t = "undefined" THEN CannotDestructure("citaId")
    ELSE LET d == Destructure(args, "citaId")
         IN Call(<<"/citas/">> \o JSString(d.id), "PATCH", d.rest)

CitaAccion(args) == Call(<<"/citas/accion">>, "POST", args)

ListServicios(args) ==
    IF args.t = "undefined" THEN CannotRead("activo")
    ELSE LET p1 == AppendIf(NewParams, Get(args, "activo") # Undefined, "activo", Get(args, "activo"))
         IN CallDefault(<<"/servicios?">> \o ParamsToString(p1))

GetServicio(args) ==
    IF args.t = "undefined" THEN CannotRead("servicioId")
    ELSE CallDefault(<<"/servicios/">> \o JSString(Get(args, "servicioId")))

CreateTask(args) ==
    IF args.t = "undefined" THEN CannotDestructure("leadId")
    ELSE LET d == Destructure(args, "leadId")
         IN Call(<<"/leads/">> \o JSString(d.id) \o <<"/tasks">>, "POST", d.rest)

ListTasks(args) ==
    IF args.t = "undefined" THEN CannotRead("leadId")
    ELSE CallDefault(<<"/leads/">> \o JSString(Get(args, "leadId")) \o <<"/tasks">>)

CompleteTask(args) ==
    IF args.t = "undefined" THEN CannotRead("taskId")
    ELSE Call(<<"/tasks/">> \o JSString(Get(args, "taskId")), "PATCH",
              Obj(<<Prop("completada", Bool(TRUE))>>))

SendWhatsapp(args) == Call(<<"/mensajes/enviar">>, "POST", args)

ListConversaciones(args) ==
    IF args.t = "undefined" THEN CannotRead("leadId")
    ELSE LET p1 == AppendIf(NewParams, Truthy(Get(args, "leadId")), "leadId", Get(args, "leadId"))
             p2 == AppendIf(p1, Truthy(Get(args, "page")), "page", Get(args, "page"))
             p3 == AppendIf(p2, Truthy(Get(args, "limit")), "limit", Get(args, "limit"))
         IN CallDefault(<<"/mensajes/conversaciones?">> \o ParamsToString(p3))

ListInteractions(args) ==
    IF args.t = "undefined" THEN CannotRead("leadId")
    ELSE CallDefault(<<"/leads/">> \o JSString(Get(args, "leadId")) \o <<"/interactions">>)

CreateInteraction(args) ==
    IF args.t = "undefined" THEN CannotDestructure("leadId")
    ELSE LET d == Destructure(args, "leadId")
         IN Call(<<"/leads/">> \o JSString(d.id) \o <<"/interactions">>, "POST", d.rest)

ListNotes(args) ==
    IF args.t = "undefined" THEN CannotRead("leadId")
    ELSE CallDefault(<<"/leads/">> \o JSString(Get(args, "leadId")) \o <<"/notes">>)

\* the switch without a case for create_note: the name falls to the default
CreateNoteNoCase(args) ==
    Throw("Error", <<"Unknown tool: ", "volkern_create_note">>)

CreateNote(args) ==
    IF args.t = "undefined" THEN CannotDestructure("leadId")
    ELSE LET d == Destructure(args, "leadId")
         IN Call(<<"/leads/">> \o JSString(d.id) \o <<"/notes">>, "POST", d.rest)

\* the default case with a message that leaves the name out
UnknownToolNoName(name) == Throw("Error", <<"Unknown tool">>)

\* default: throw new Error(`Unknown tool: ${name}`)
UnknownTool(name) == Throw("Error", <<"Unknown tool: ">> \o JSString(Str(name)))

\* the switch of handleToolCall: the volkernRequest call a tool makes, or
\* the error thrown before any call
HandleToolCall(name, args) ==
    CASE name = "volkern_list_leads"           -> ListLeads(args)
      [] name = "volkern_get_lead"             -> GetLead(args)
      [] name = "volkern_create_lead"          -> CreateLead(args)
      [] name = "volkern_update_lead"          -> UpdateLead(args)
      [] name = "volkern_check_disponibilidad" -> CheckDisponibilidad(args)
      [] name = "volkern_list_citas"           -> ListCitas(args)
      [] name = "volkern_create_cita"          -> CreateCita(args)
      [] name = "volkern_update_cita"          -> UpdateCita(args)
      [] name = "volkern_cita_accion"          -> CitaAccion(args)
      [] name = "volkern_list_servicios"       -> ListServicios(args)
      [] name = "volkern_get_servicio"         -> GetServicio(args)
      [] name = "volkern_create_task"          -> CreateTask(args)
      [] name = "volkern_list_tasks"           -> ListTasks(args)
      [] name = "volkern_complete_task"        -> CompleteTask(args)
      [] name = "volkern_send_whatsapp"        -> SendWhatsapp(args)
      [] name = "volkern_list_conversaciones"  -> ListConversaciones(args)
      [] name = "volkern_list_interactions"    -> ListInteractions(args)
      [] name = "volkern_create_interaction"   -> CreateInteraction(args)
      [] name = "volkern_list_notes"           -> ListNotes(args)
      [] name = "volkern_create_note"          -> CreateNote(args)
      [] OTHER                                 -> UnknownTool(name)

\* the key a tool's rule takes out of args by destructuring, "" when none
DestructuredKey(name) ==
    CASE name \in {"volkern_update_lead", "volkern_create_task",
                   "volkern_create_interaction", "volkern_create_note"} -> "leadId"
      [] name = "volkern_update_cita" -> "citaId"
      [] OTHER -> ""

\* the object args refers to once handleToolCall has run its rule
ArgsAfterCall(name, args) ==
    IF DestructuredKey(name) # "" /\ args.t # "undefined"
    THEN Destructure(args, DestructuredKey(name)).source
    ELSE args

(***************************************************************************)
(* volkernRequest                                                          *)
(***************************************************************************)
\* the arguments of fetch(url, options): options.body is set only for a
\* truthy body and a method other than GET
FetchArgs(endpoint, method, body) ==
    LET url     == VOLKERN_API_URL \o endpoint
        headers == [Authorization |-> <<"Bearer ">> \o VOLKERN_API_KEY,
                    ContentType   |-> <<"application/json">>]
    IN IF Truthy(body) /\ method # "GET"
       THEN [url |-> url, method |-> method, headers |-> headers,
             body |-> JSONStringify(body)]
       ELSE [url |-> url, method |-> method, headers |-> headers]

\* response.ok
Ok(status) == status \in 200..299

\* fetch rejected: the error volkernRequest lets through
FetchFailed == Throw("TypeError", <<"fetch failed">>)

\* the error of a rejected request built with String(errorData)
ReadResponseStringError(status, text) ==
    LET parsed == JSONParse(text) IN
    IF ~Ok(status)
    THEN LET errorData == IF parsed.ok THEN parsed.v ELSE Obj(<<>>)
         IN Throw("Error", <<"Volkern API Error (", ToString(status), "): ">>
                              \o JSString(errorData))
    ELSE IF parsed.ok THEN [kind |-> "return", value |-> parsed.v]
    ELSE Throw("SyntaxError", <<"Unexpected token in JSON">>)

\* what volkernRequest does with a response whose body text is read: the
\* value returned, or the error thrown
ReadResponse(status, text) ==
    LET parsed == JSONParse(text) IN
    IF ~Ok(status)
    THEN LET errorData == IF parsed.ok THEN parsed.v ELSE Obj(<<>>)
         IN Throw("Error", <<"Volkern API Error (", ToString(status), "): ">>
                              \o JSONStringify(errorData))
    ELSE IF parsed.ok THEN [kind |-> "return", value |-> parsed.v]
    ELSE Throw("SyntaxError", <<"Unexpected token in JSON">>)

(***************************************************************************)
(* The call-tool request handler                                           *)
(***************************************************************************)
\* the try branch: the success envelope of a result
SuccessEnvelope(result) ==
    [content |-> <<[type |-> "text", text |-> JSONStringifyPretty(result)]>>]

\* a catch branch that forgets the isError flag
FailureEnvelopeNoFlag(error) ==
    [content |-> <<[type |-> "text", text |-> <<"Error: ">> \o error.message]>>]

\* the catch branch: the failure envelope of an error
FailureEnvelope(error) ==
    [content |-> <<[type |-> "text", text |-> <<"Error: ">> \o error.message]>>,
     isError |-> TRUE]

\* what the handler's try/catch makes of the outcome of handleToolCall
Settle(outcome) ==
    IF outcome.kind = "return"
    THEN [kind |-> "envelope", envelope |-> SuccessEnvelope(outcome.value)]
    ELSE [kind |-> "envelope", envelope |-> FailureEnvelope(outcome.error)]

(***************************************************************************)
(* The tool registry                                                       *)
(***************************************************************************)
Tool(name, required) == [name |-> name, required |-> required]

\* const tools: the descriptors in registration order (name and the
\* required list of the input schema)
Registry ==
    << Tool("volkern_list_leads", <<>>),
       Tool("volkern_get_lead", <<"leadId">>),
       Tool("volkern_create_lead", <<"nombre">>),
       Tool("volkern_update_lead", <<"leadId">>),
       Tool("volkern_check_disponibilidad", <<"fecha">>),
       Tool("volkern_list_citas", <<>>),
       Tool("volkern_create_cita", <<"leadId", "fechaHora">>),
       Tool("volkern_update_cita", <<"citaId">>),
       Tool("volkern_cita_accion", <<"citaId", "accion">>),
       Tool("volkern_list_servicios", <<>>),
       Tool("volkern_get_servicio", <<"servicioId">>),
       Tool("volkern_create_task", <<"leadId", "tipo", "titulo", "fechaVencimiento">>),
       Tool("volkern_list_tasks", <<"leadId">>),
       Tool("volkern_complete_task", <<"taskId">>),
       Tool("volkern_send_whatsapp", <<"leadId", "mensaje">>),
       Tool("volkern_list_conversaciones", <<>>),
       Tool("volkern_list_interactions", <<"leadId">>),
       Tool("volkern_create_interaction", <<"leadId", "tipo", "contenido">>),
       Tool("volkern_list_notes", <<"leadId">>),
       Tool("volkern_create_note", <<"leadId", "contenido">>) >>

RegisteredNames == {Registry[i].name : i \in 1..Len(Registry)}

(***************************************************************************)
(* Bounds and inputs                                                       *)
(***************************************************************************)
\* invocations that may be in flight together
MaxCalls == 2
\* properties of an argument object
MaxArgKeys == 2

Ids == 1..MaxCalls

UnknownNames == {"volkern_delete_lead", "VOLKERN_GET_LEAD", ""}
Names == RegisteredNames \cup UnknownNames

\* the properties an argument object may have, in insertion order, each
\* with the values it may take
ArgCandidates ==
    << [k |-> "estado",    vals |-> {Str("nuevo")}],
       [k |-> "leadId",    vals |-> {Str("abc123"), Num(7)}],
       [k |-> "nombre",    vals |-> {Str("X"), Str("")}],
       [k |-> "citaId",    vals |-> {Str("c9")}],
       [k |-> "search",    vals |-> {Str("a b")}],
       [k |-> "page",      vals |-> {Num(2), Num(0)}],
       [k |-> "activo",    vals |-> {Bool(FALSE)}],
       [k |-> "etiquetas", vals |-> {Arr(<<Str("vip")>>)}],
       [k |-> "contexto",  vals |-> {Obj(<<Prop("page", Num(2))>>)}] >>

RECURSIVE PropsFrom(_, _)
\* the property lists over the candidates from position c on, of at most
\* n properties
PropsFrom(c, n) ==
    IF c > Len(ArgCandidates) \/ n = 0 THEN {<<>>}
    ELSE PropsFrom(c + 1, n)
            \cup {<<Prop(ArgCandidates[c].k, v)>> \o rest :
                     v \in ArgCandidates[c].vals, rest \in PropsFrom(c + 1, n - 1)}

\* request.params.arguments: optional, so undefined or an object
ArgObjects == {Undefined} \cup {Obj(m) : m \in PropsFrom(1, MaxArgKeys)}

BodyId42      == <<"{", "\"id\"", ":", "\"42\"", "}">>
BodySlotTaken == <<"{", " ", "\"error\"", ":", " ", "\"slot_taken\"", " ", "}">>
BodyHtml      == <<"<html>">>
BodyEmpty     == <<>>

Statuses == {200, 409}
Bodies   == {BodyId42, BodySlotTaken, BodyHtml, BodyEmpty}

\* the invocations and responses of the concurrent specification
ConcInputs ==
    { <<"volkern_get_lead", Obj(<<Prop("leadId", Str("abc123"))>>)>>,
      <<"volkern_update_lead", Obj(<<Prop("leadId", Str("abc123")), Prop("nombre", Str("X"))>>)>>,
      <<"volkern_create_lead", Obj(<<Prop("nombre", Str("X"))>>)>>,
      <<"volkern_list_leads", Undefined>>,
      <<"volkern_delete_lead", Obj(<<>>)>> }
ConcResponses == { <<200, BodyId42>>, <<409, BodySlotTaken>>, <<200, BodyHtml>> }

(***************************************************************************)
(* State                                                                   *)
(***************************************************************************)
VARIABLES
    tools,    \* the registry array the list handler returns
    listed,   \* the tools of the last answer of the list handler
    calls,    \* per invocation: where the handler stands and its locals
    argObj,   \* per invocation: the argument object the caller passed
    given,    \* per invocation: that object as it was when passed
    net,      \* per invocation: the fetch calls made and what answered them
    out       \* per invocation: the envelopes returned to the caller

vars == <<tools, listed, calls, argObj, given, net, out>>

None == [kind |-> "none"]
Idle == [pc |-> "idle", name |-> "", response |-> None, cancelled |-> FALSE]

Init ==
    /\ tools = Registry
    /\ listed = <<>>
    /\ calls = [i \in Ids |-> Idle]
    /\ argObj = [i \in Ids |-> Undefined]
    /\ given = [i \in Ids |-> Undefined]
    /\ net = [i \in Ids |-> <<>>]
    /\ out = [i \in Ids |-> <<>>]

\* the response kept in one module-level variable that every invocation
\* reads: the response of the lowest invocation that holds one
SharedResponse(i) ==
    LET holders == {j \in Ids : calls[j].response.kind = "response"}
    IN calls[CHOOSE j \in holders : \A k \in holders : j <= k].response

\* const response = await fetch(...): the response this invocation holds
LocalResponse(i) == calls[i].response

\* the handler of invocation i is done with the outcome of handleToolCall:
\* it returns an envelope, or the error leaves the handler
Finish(i, outcome) ==
    LET s == Settle(outcome) IN
    IF s.kind = "envelope"
    THEN /\ out' = [out EXCEPT ![i] = Append(@, s.envelope)]
         /\ calls' = [calls EXCEPT ![i].pc = "returned"]
    ELSE /\ out' = out
         /\ calls' = [calls EXCEPT ![i].pc = "escaped"]

\* ListToolsRequestSchema handler
ListTools ==
    /\ listed' = tools
    /\ UNCHANGED <<tools, calls, argObj, given, net, out>>

\* CallToolRequestSchema handler up to its first suspension: handleToolCall
\* runs the tool's rule and volkernRequest calls fetch, or an error is
\* thrown and caught
CallTool(i, name, args) ==
    /\ calls[i].pc = "idle"
    /\ given' = [given EXCEPT ![i] = args]
    /\ argObj' = [argObj EXCEPT ![i] = ArgsAfterCall(name, args)]
    /\ LET r == HandleToolCall(name, args) IN
       IF r.kind = "call"
       THEN /\ net' = [net EXCEPT ![i] = Append(@,
                         [request |-> FetchArgs(r.endpoint, r.method, r.body),
                          reply |-> None])]
            /\ calls' = [calls EXCEPT ![i].pc = "fetching", ![i].name = name]
            /\ out' = out
       ELSE /\ net' = net
            /\ LET s == Settle(r) IN
               IF s.kind = "envelope"
               THEN /\ out' = [out EXCEPT ![i] = Append(@, s.envelope)]
                    /\ calls' = [calls EXCEPT ![i].pc = "returned", ![i].name = name]
               ELSE /\ out' = out
                    /\ calls' = [calls EXCEPT ![i].pc = "escaped", ![i].name = name]
    /\ UNCHANGED <<tools, listed>>

\* the remote answers the pending fetch of invocation i: the promise of
\* fetch resolves and volkernRequest goes on to response.json()
FetchResolve(i, status, text) ==
    /\ calls[i].pc = "fetching"
    /\ LET resp == [kind |-> "response", status |-> status, text |-> text] IN
       /\ net' = [net EXCEPT ![i][Len(net[i])].reply = resp]
       /\ calls' = [calls EXCEPT ![i].pc = "reading", ![i].response = resp]
    /\ UNCHANGED <<tools, listed, argObj, given, out>>

\* the pending fetch of invocation i fails at the network level: the
\* promise rejects and the error reaches the handler's catch
FetchReject(i) ==
    /\ calls[i].pc = "fetching"
    /\ net' = [net EXCEPT ![i][Len(net[i])].reply = [kind |-> "failure"]]
    /\ Finish(i, FetchFailed)
    /\ UNCHANGED <<tools, listed, argObj, given>>

\* response.json() settles: volkernRequest returns or throws and the
\* handler builds the envelope
ReadJson(i) ==
    /\ calls[i].pc = "reading"
    /\ Finish(i, ReadResponse(LocalResponse(i).status, LocalResponse(i).text))
    /\ UNCHANGED <<tools, listed, argObj, given, net>>

\* one invocation, any tool name, any argument object, any response
Next ==
    \/ ListTools
    \/ \E name \in Names, args \in ArgObjects : CallTool(1, name, args)
    \/ \E status \in Statuses, text \in Bodies : FetchResolve(1, status, text)
    \/ FetchReject(1)
    \/ ReadJson(1)

Spec == Init /\ [][Next]_vars

\* several invocations in flight, their steps interleaved in any order
NextConc ==
    \/ ListTools
    \/ \E i \in Ids, inp \in ConcInputs : CallTool(i, inp[1], inp[2])
    \/ \E i \in Ids, r \in ConcResponses : FetchResolve(i, r[1], r[2])
    \/ \E i \in Ids : FetchReject(i)
    \/ \E i \in Ids : ReadJson(i)

SpecConc == Init /\ [][NextConc]_vars

\* the caller cancels invocation i, or its deadline passes, while the
\* invocation is suspended: the handler takes only the request and fetch
\* is given no signal, so nothing in the invocation changes
Cancel(i) ==
    /\ calls[i].pc \in {"fetching", "reading"}
    /\ ~calls[i].cancelled
    /\ calls' = [calls EXCEPT ![i].cancelled = TRUE]
    /\ UNCHANGED <<tools, listed, argObj, given, net, out>>

\* invocations that may be cancelled while the remote is free to stay silent
LiveResponses == { <<200, BodyId42>>, <<409, BodyHtml>> }

NextLive ==
    \/ ListTools
    \/ \E i \in Ids, inp \in ConcInputs : CallTool(i, inp[1], inp[2])
    \/ \E i \in Ids, r \in LiveResponses : FetchResolve(i, r[1], r[2])
    \/ \E i \in Ids : FetchReject(i)
    \/ \E i \in Ids : ReadJson(i)
    \/ \E i \in Ids : Cancel(i)

\* the event loop runs every continuation that is ready: once a response
\* has arrived its body is read and the handler returns.  Nothing makes
\* the remote answer, so the settling of fetch is not fair.
SpecLive ==
    Init /\ [][NextLive]_vars /\ \A i \in Ids : WF_vars(ReadJson(i))

TypeOK ==
    /\ tools = Registry
    /\ \A i \in Ids : calls[i].pc \in {"idle", "fetching", "reading", "returned", "escaped"}

(***************************************************************************)
(* Vocabulary of the properties                                            *)
(***************************************************************************)
ToolNames == {tools[k].name : k \in 1..Len(tools)}

\* the tools whose rule hands args to volkernRequest without reading it
PassThroughTools ==
    {"volkern_create_lead", "volkern_create_cita", "volkern_cita_accion",
     "volkern_send_whatsapp"}

\* the tools whose rule destructures an identifier out of args
IdBodyTools ==
    {"volkern_update_lead", "volkern_update_cita", "volkern_create_task",
     "volkern_create_interaction", "volkern_create_note"}

ReadTools ==
    {"volkern_list_leads", "volkern_get_lead", "volkern_check_disponibilidad",
     "volkern_list_citas", "volkern_list_servicios", "volkern_get_servicio",
     "volkern_list_tasks", "volkern_list_conversaciones",
     "volkern_list_interactions", "volkern_list_notes"}

IdKeyOf(name) == IF name = "volkern_update_cita" THEN "citaId" ELSE "leadId"

CandidateKeys == {ArgCandidates[c].k : c \in 1..Len(ArgCandidates)}

Started(i)  == calls[i].pc # "idle"
Done(i)     == calls[i].pc \in {"returned", "escaped"}
Returned(i) == calls[i].pc = "returned"

Envelope(i) == out[i][1]
TextOf(e)   == e.content[1].text
IsFailure(e) == "isError" \in DOMAIN e /\ e.isError = TRUE
IsSuccess(e) == "isError" \notin DOMAIN e

Request(i) == net[i][1].request
Reply(i)   == IF net[i] = <<>> THEN None ELSE net[i][Len(net[i])].reply

\* the remote answered with a success status and a body that is JSON
RemoteSucceeded(i) ==
    /\ Reply(i).kind = "response"
    /\ Ok(Reply(i).status)
    /\ JSONParse(Reply(i).text).ok

ExactlyOneEnvelope(i) ==
    /\ Done(i) => calls[i].pc = "returned" /\ Len(out[i]) = 1
    /\ ~Done(i) => out[i] = <<>>

(***************************************************************************)
(* C1: invoking a name that is not a registered tool name, with any        *)
(* arguments, returns a failure envelope whose text is                     *)
(* "Error: Unknown tool: <name>" with isError true; no HTTP request is     *)
(* issued and no exception leaves the handler.                             *)
(***************************************************************************)
C1_UnknownToolFailure ==
    \A i \in Ids :
        (Started(i) /\ calls[i].name \notin ToolNames) =>
            /\ calls[i].pc = "returned"
            /\ Len(out[i]) = 1
            /\ TextOf(Envelope(i)) = <<"Error: ", "Unknown tool: ">> \o JSString(Str(calls[i].name))
            /\ IsFailure(Envelope(i))
            /\ net[i] = <<>>

C1_Witness ==
    \E i \in Ids :
        /\ Returned(i)
        /\ calls[i].name = "volkern_delete_lead"
        /\ given[i] = Obj(<<Prop("leadId", Str("abc123"))>>)
        /\ TextOf(Envelope(i)) = <<"Error: ", "Unknown tool: ", "volkern_delete_lead">>

(***************************************************************************)
(* C2 as stated: every invocation produces exactly one envelope and no     *)
(* exception escapes; a remote success with payload P gives the text of P  *)
(* without isError; every other outcome (unknown tool, non-2xx status,     *)
(* network failure, unparseable success body, absent argument object)      *)
(* gives "Error: <message>" with isError true.                             *)
(***************************************************************************)
C2_FailedAsStated(i) ==
    \/ calls[i].name \notin ToolNames
    \/ given[i] = Undefined
    \/ ~RemoteSucceeded(i)

C2_EnvelopeMatches(i, failed) ==
    LET e == Envelope(i) IN
    /\ failed <=> IsFailure(e)
    /\ failed => Len(TextOf(e)) > 1 /\ Head(TextOf(e)) = "Error: "
    /\ ~failed => /\ IsSuccess(e)
                  /\ JSONParse(TextOf(e)) = JSONParse(Reply(i).text)

C2_AsStated ==
    \A i \in Ids :
        /\ ExactlyOneEnvelope(i)
        /\ Done(i) => C2_EnvelopeMatches(i, C2_FailedAsStated(i))

(***************************************************************************)
(* C2 amended: as stated, except that an absent argument object is a       *)
(* failure only for the tools whose rule reads the arguments; for the four *)
(* tools that pass the arguments through (create_lead, create_cita,        *)
(* cita_accion, send_whatsapp) the request is issued without a body and    *)
(* the outcome is that of the remote call.                                 *)
(***************************************************************************)
C2_Failed(i) ==
    \/ calls[i].name \notin ToolNames
    \/ given[i] = Undefined /\ calls[i].name \notin PassThroughTools
    \/ ~RemoteSucceeded(i)

C2_OneEnvelopePerOutcome ==
    \A i \in Ids :
        /\ ExactlyOneEnvelope(i)
        /\ Done(i) => C2_EnvelopeMatches(i, C2_Failed(i))

C2_Witness ==
    \E i \in Ids :
        /\ Returned(i)
        /\ calls[i].name = "volkern_create_lead"
        /\ given[i] = Undefined
        /\ Reply(i) = [kind |-> "response", status |-> 200, text |-> BodyId42]
        /\ IsSuccess(Envelope(i))
        /\ JSONParse(TextOf(Envelope(i))).v = Obj(<<Prop("id", Str("42"))>>)

(***************************************************************************)
(* C3: when the remote answers a registered tool's request with a          *)
(* non-success status S and body B, the envelope is a failure whose        *)
(* message contains S and the JSON serialization of B, or of an empty      *)
(* object when B is not valid JSON.                                        *)
(***************************************************************************)
C3_RemoteRejection ==
    \A i \in Ids :
        (Done(i) /\ Reply(i).kind = "response" /\ ~Ok(Reply(i).status)) =>
            LET e == Envelope(i)
                b == JSONParse(Reply(i).text)
            IN /\ Returned(i)
               /\ IsFailure(e)
               /\ Head(TextOf(e)) = "Error: "
               /\ Contains(TextOf(e), <<ToString(Reply(i).status)>>)
               /\ b.ok => Contains(TextOf(e), JSONStringify(b.v))
               /\ ~b.ok => Contains(TextOf(e), <<"{", "}">>)
               /\ (Reply(i).status = 409 /\ Reply(i).text = BodySlotTaken) =>
                      /\ Contains(TextOf(e), <<"409">>)
                      /\ Contains(TextOf(e), <<"{", "\"error\"", ":", "\"slot_taken\"", "}">>)

C3_Witness ==
    \E i \in Ids :
        /\ Returned(i)
        /\ calls[i].name = "volkern_create_cita"
        /\ Reply(i) = [kind |-> "response", status |-> 409, text |-> BodyHtml]
        /\ Contains(TextOf(Envelope(i)), <<"409", "): ", "{", "}">>)

(***************************************************************************)
(* C4 as stated: every invocation of a registered tool performs exactly    *)
(* one outbound HTTP request before its envelope is returned, whatever     *)
(* the outcome, and never a second one.                                    *)
(***************************************************************************)
C4_ExactlyOneRequest ==
    \A i \in Ids :
        /\ Len(net[i]) <= 1
        /\ (Done(i) /\ calls[i].name \in ToolNames) => Len(net[i]) = 1

(***************************************************************************)
(* C5: for the tools that embed an identifier in the path and send a body  *)
(* built from the arguments, the path contains the identifier's value and  *)
(* the body is the arguments without exactly that key; update_lead with    *)
(* {leadId: "abc123", nombre: "X"} issues PATCH /leads/abc123 with body    *)
(* {nombre: "X"}.                                                          *)
(***************************************************************************)
C5_IdentifierStripped ==
    \A i \in Ids :
        (Started(i) /\ calls[i].name \in IdBodyTools /\ given[i] # Undefined) =>
            LET key  == IdKeyOf(calls[i].name)
                req  == Request(i)
                body == JSONParse(req.body)
            IN /\ Len(net[i]) = 1
               /\ HasKey(given[i], key) =>
                      Contains(req.url, JSString(Get(given[i], key)))
               /\ "body" \in DOMAIN req
               /\ body.ok
               /\ \A k \in CandidateKeys :
                      /\ HasKey(body.v, k) <=> (HasKey(given[i], k) /\ k # key)
                      /\ HasKey(body.v, k) => Get(body.v, k) = Get(given[i], k)
               /\ Len(body.v.m) = Len(given[i].m) - (IF HasKey(given[i], key) THEN 1 ELSE 0)
               /\ (/\ calls[i].name = "volkern_update_lead"
                   /\ given[i] = Obj(<<Prop("leadId", Str("abc123")), Prop("nombre", Str("X"))>>)) =>
                      /\ req.method = "PATCH"
                      /\ req.url = VOLKERN_API_URL \o <<"/leads/", "abc123">>
                      /\ req.body = <<"{", "\"nombre\"", ":", "\"X\"", "}">>

C5_Witness ==
    \E i \in Ids :
        /\ Started(i)
        /\ calls[i].name = "volkern_update_lead"
        /\ given[i] = Obj(<<Prop("leadId", Str("abc123")), Prop("nombre", Str("X"))>>)
        /\ Len(net[i]) = 1
        /\ Request(i).method = "PATCH"

(***************************************************************************)
(* C6 as stated: for volkern_list_leads and any argument object, the query *)
(* string has exactly one name=value pair, the value in its textual form,  *)
(* for each of estado, canal, search, page, limit that the caller supplied *)
(* and none for a parameter not supplied; {estado: "nuevo", page: 2}       *)
(* gives exactly estado=nuevo&page=2.                                      *)
(***************************************************************************)
ListLeadsParams == <<"estado", "canal", "search", "page", "limit">>

\* the query string the claim describes: a pair per supplied parameter
C6_QueryOfSupplied(args) ==
    LET supplied == SelectSeq(ListLeadsParams, LAMBDA k : HasKey(args, k))
    IN JoinTexts([j \in 1..Len(supplied) |->
                     <<supplied[j], "=">> \o JSString(Get(args, supplied[j]))], "&")

\* the query string of a request, as the receiving server decodes it
QueryOf(req) == [j \in 1..(Len(req.url) - 2) |-> FormDecodeToken(req.url[j + 2])]

C6_QueryHasEverySupplied ==
    \A i \in Ids :
        (Started(i) /\ calls[i].name = "volkern_list_leads" /\ given[i] # Undefined) =>
            /\ Len(net[i]) = 1
            /\ QueryOf(Request(i)) = C6_QueryOfSupplied(given[i])

(***************************************************************************)
(* C7: every read tool (list_*, get_*, check_disponibilidad) issues its    *)
(* request with method GET and without a body, for any arguments;          *)
(* volkern_get_lead with {leadId: "abc123"} targets /leads/abc123.         *)
(***************************************************************************)
C7_ReadToolsGetNoBody ==
    \A i \in Ids :
        (Started(i) /\ calls[i].name \in ReadTools) =>
            /\ \A r \in 1..Len(net[i]) :
                  /\ net[i][r].request.method = "GET"
                  /\ "body" \notin DOMAIN net[i][r].request
            /\ given[i] # Undefined => Len(net[i]) = 1
            /\ (/\ calls[i].name = "volkern_get_lead"
                /\ given[i] = Obj(<<Prop("leadId", Str("abc123"))>>)) =>
                   Request(i).url = VOLKERN_API_URL \o <<"/leads/", "abc123">>

C7_Witness ==
    \E i \in Ids :
        /\ Started(i)
        /\ calls[i].name = "volkern_get_lead"
        /\ given[i] = Obj(<<Prop("leadId", Str("abc123"))>>)
        /\ Len(net[i]) = 1
        /\ Request(i).method = "GET"

(***************************************************************************)
(* C8: for the mutating tools whose path embeds no identifier              *)
(* (create_lead, create_cita, cita_accion, send_whatsapp) the request is a *)
(* POST whose body is the caller's arguments unchanged: every supplied     *)
(* key, leadId and citaId included, with its value, and no key added.      *)
(***************************************************************************)
C8_ArgumentsPassedThrough ==
    \A i \in Ids :
        (Started(i) /\ calls[i].name \in PassThroughTools) =>
            /\ Len(net[i]) = 1
            /\ Request(i).method = "POST"
            /\ given[i] # Undefined =>
                  /\ "body" \in DOMAIN Request(i)
                  /\ JSONParse(Request(i).body) = [ok |-> TRUE, v |-> given[i]]
            /\ given[i] = Undefined => "body" \notin DOMAIN Request(i)

C8_Witness ==
    \E i \in Ids :
        /\ Started(i)
        /\ calls[i].name = "volkern_create_cita"
        /\ given[i] = Obj(<<Prop("leadId", Str("abc123")),
                            Prop("etiquetas", Arr(<<Str("vip")>>))>>)
        /\ Len(net[i]) = 1
        /\ Request(i).body = <<"{", "\"leadId\"", ":", "\"abc123\"", ",",
                               "\"etiquetas\"", ":", "[", "\"vip\"", "]", "}">>

(***************************************************************************)
(* C9: no invocation mutates the argument object it was given: once the    *)
(* invocation has returned, with success or failure, the caller's          *)
(* arguments hold the same keys and values as before, the path identifier  *)
(* stripped from the outgoing body included.                               *)
(***************************************************************************)
C9_ArgumentsNotMutated ==
    \A i \in Ids : Started(i) => argObj[i] = given[i]

C9_Witness ==
    \E i \in Ids :
        /\ Returned(i)
        /\ calls[i].name = "volkern_update_lead"
        /\ given[i] # Undefined
        /\ HasKey(given[i], "leadId")
        /\ ~HasKey(JSONParse(Request(i).body).v, "leadId")
        /\ HasKey(argObj[i], "leadId")

(***************************************************************************)
(* C10: with several invocations in flight and their responses arriving in *)
(* any interleaving, each invocation's envelope is determined only by its  *)
(* own tool name, its own arguments and the response to its own request;   *)
(* the tool list is the same before, during and after.                     *)
(***************************************************************************)
\* the envelope of one invocation run alone on a name, an argument object
\* and the answer of the remote to its request
EnvelopeAlone(name, args, reply) ==
    LET r == HandleToolCall(name, args) IN
    IF r.kind = "throw" THEN FailureEnvelope(r.error)
    ELSE IF reply.kind = "failure" THEN FailureEnvelope(FetchFailed.error)
    ELSE LET v == ReadResponse(reply.status, reply.text)
         IN IF v.kind = "return" THEN SuccessEnvelope(v.value)
            ELSE FailureEnvelope(v.error)

C10_InvocationsIndependent ==
    /\ tools = Registry
    /\ listed \in {<<>>, Registry}
    /\ \A i \in Ids :
          /\ ExactlyOneEnvelope(i)
          /\ Done(i) => Envelope(i) = EnvelopeAlone(calls[i].name, given[i], Reply(i))
          /\ Started(i) => argObj[i] = given[i]

C10_Witness ==
    \E i, j \in Ids :
        /\ i # j
        /\ Returned(i)
        /\ calls[j].pc = "reading"
        /\ Reply(i).kind = "response"
        /\ Reply(i) # Reply(j)
        /\ listed = Registry

(***************************************************************************)
(* C11 as stated: an invocation never hangs: when its transport-level call *)
(* is cancelled or times out it eventually returns a failure envelope, and *)
(* every started invocation eventually returns exactly one envelope even   *)
(* when the remote never answers.                                          *)
(***************************************************************************)
C11_NeverHangs ==
    \A i \in Ids :
        /\ Started(i) ~> (Returned(i) /\ Len(out[i]) = 1)
        /\ calls[i].cancelled ~> (Returned(i) /\ IsFailure(Envelope(i)))

(***************************************************************************)
(* C12: the tool names of the registry are pairwise distinct and the       *)
(* dispatcher recognises exactly the registered names: a name is listed by *)
(* the tool listing if and only if invoking it is not answered with the    *)
(* "Unknown tool" failure.                                                 *)
(***************************************************************************)
AnsweredUnknownTool(i) ==
    /\ Returned(i)
    /\ TextOf(Envelope(i)) = <<"Error: ", "Unknown tool: ">> \o JSString(Str(calls[i].name))

C12_RegistryMatchesDispatcher ==
    /\ \A a, b \in 1..Len(tools) : a # b => tools[a].name # tools[b].name
    /\ listed # <<>> => listed = tools
    /\ \A i \in Ids :
          Started(i) => (calls[i].name \in ToolNames <=> ~AnsweredUnknownTool(i))

C12_Witness ==
    \E i \in Ids :
        /\ listed = tools
        /\ calls[i].name = "volkern_create_note"
        /\ calls[i].pc = "fetching"
        /\ Request(i).method = "POST"

(***************************************************************************)
(* C13 as stated: the dispatcher never rejects an invocation of a          *)
(* registered tool locally for a missing parameter that the tool's schema  *)
(* marks required: the HTTP request is still issued, and a missing path    *)
(* identifier (leadId, citaId, servicioId, taskId) or a missing fecha of   *)
(* volkern_check_disponibilidad appears in the path or query as the text   *)
(* "undefined".                                                            *)
(***************************************************************************)
\* the identifier a tool's rule puts in the path, "" when none
PathIdKey(name) ==
    CASE name \in {"volkern_get_lead", "volkern_update_lead", "volkern_create_task",
                   "volkern_list_tasks", "volkern_list_interactions",
                   "volkern_create_interaction", "volkern_list_notes",
                   "volkern_create_note"} -> "leadId"
      [] name = "volkern_update_cita"   -> "citaId"
      [] name = "volkern_get_servicio"  -> "servicioId"
      [] name = "volkern_complete_task" -> "taskId"
      [] OTHER -> ""

\* the argument object lacks the parameter key
Missing(args, key) == args = Undefined \/ ~HasKey(args, key)

\* the invocation lacks a parameter its tool's schema marks required
MissingRequired(i) ==
    \E k \in 1..Len(tools) :
        /\ tools[k].name = calls[i].name
        /\ \E r \in 1..Len(tools[k].required) : Missing(given[i], tools[k].required[r])

C13_MissingRequiredStillSent ==
    \A i \in Ids :
        (Started(i) /\ MissingRequired(i)) =>
            /\ Len(net[i]) = 1
            /\ (PathIdKey(calls[i].name) # "" /\ Missing(given[i], PathIdKey(calls[i].name))) =>
                  Contains(Request(i).url, <<"undefined">>)
            /\ (calls[i].name = "volkern_check_disponibilidad" /\ Missing(given[i], "fecha")) =>
                  Contains(Request(i).url, <<"fecha", "=", "undefined">>)

====
